---- MODULE Spec2Model ----
(***************************************************************************)
(* A model of genrobo3d/models/motion_planner_ptv3.py: the ActionHead, the *)
(* context encoder (prepare_ptv3_batch), forward's action decoder and      *)
(* compute_loss.                                                           *)
(*                                                                         *)
(* Tensors are sequences (of sequences ...), indexed from 1.  Real numbers *)
(* are integers in fixed point: losses, logarithms and exponentials are in *)
(* units of 1/1000 (ExpMilli, LnMilli); a float result that can be NaN or  *)
(* infinite is a record [k, v] with k in {"num", "nan", "inf"}.  A raised  *)
(* Python exception is a record [status |-> <exception name>].            *)
(***************************************************************************)
EXTENDS Integers, Sequences, FiniteSets, TLC

VARIABLES
    config,     \* config.action_config (and loss_config) of the model
    head,       \* the ActionHead built by __init__: its fields, or the error raised
    batch,      \* the arguments of the call under study
    preds,      \* pred_actions = (xt, xr, xo, xstop) of ActionHead.forward
    outs,       \* prepare_ptv3_batch's outs / forward's final_pred_actions
    losses,     \* the dictionary compute_loss returns, or the error raised
    nedits,     \* 1 once the caller has changed the batch and called again
    pc          \* the last operation performed

vars == <<config, head, batch, preds, outs, losses, nedits, pc>>

None == [status |-> "none"]

(***************************************************************************)
(* Bounds of the model.                                                    *)
(***************************************************************************)
BatchSize == 2
MaxTrajLen == 2
MaxMaskLen == 3
MaxPerSample == 2
HiddenSize == 2
MaxTokens == 2
MaxConstructions == 2
ContextChannels == 2
PosBins == 1

(***************************************************************************)
(* Arithmetic helpers.                                                     *)
(***************************************************************************)
Max(a, b) == IF a >= b THEN a ELSE b
Abs(a) == IF a >= 0 THEN a ELSE -a

RECURSIVE SumSeq(_)
SumSeq(s) == IF Len(s) = 0 THEN 0 ELSE Head(s) + SumSeq(Tail(s))

RECURSIVE Concat(_)
Concat(ss) == IF Len(ss) = 0 THEN <<>> ELSE Head(ss) \o Concat(Tail(ss))

\* exp(x) in units of 1/1000, for the integer logits the model draws
ExpMilli(x) ==
    CASE x <= -3 -> 50
      [] x = -2 -> 135
      [] x = -1 -> 368
      [] x = 0 -> 1000
      [] x = 1 -> 2718
      [] x = 2 -> 7389
      [] x >= 3 -> 20086

\* ln(n / 1000) in units of 1/1000, n >= 1: halve down to [1, 2), then the
\* series ln(m) = 2 (z + z^3/3 + z^5/5), z = (m - 1) / (m + 1)
RECURSIVE LnMilli(_)
LnMilli(n) ==
    IF n >= 2000 THEN 693 + LnMilli(n \div 2)
    ELSE IF n < 1000 THEN -LnMilli(1000000 \div n)
    ELSE LET z == ((n - 1000) * 1000) \div (n + 1000)
             z2 == (z * z) \div 1000
             z3 == (z2 * z) \div 1000
             z5 == (z3 * z2) \div 1000
         IN  2 * z + (2 * z3) \div 3 + (2 * z5) \div 5

(***************************************************************************)
(* Float results: a number (fixed point), NaN or infinity.                 *)
(***************************************************************************)
Num(v) == [k |-> "num", v |-> v]
NaN == [k |-> "nan", v |-> 0]
Inf == [k |-> "inf", v |-> 0]
Raised == [k |-> "err", v |-> 0]

\* torch: a float tensor divided by a scalar or a tensor; x/0 raises nothing
FDiv(a, d) ==
    CASE a.k = "err" -> Raised
      [] a.k = "nan" -> NaN
      [] a.k = "inf" -> Inf
      [] OTHER -> IF d # 0 THEN Num(a.v \div d)
                  ELSE IF a.v = 0 THEN NaN ELSE Inf

FAdd(a, b) ==
    CASE a.k = "err" \/ b.k = "err" -> Raised
      [] a.k = "nan" \/ b.k = "nan" -> NaN
      [] a.k = "inf" \/ b.k = "inf" -> Inf
      [] OTHER -> Num(a.v + b.v)

FScale(w, a) ==
    CASE a.k = "err" -> Raised
      [] a.k = "nan" -> NaN
      [] a.k = "inf" -> IF w = 0 THEN NaN ELSE Inf
      [] OTHER -> Num(w * a.v)

(***************************************************************************)
(* torch broadcasting of one dimension, and torch.split.                   *)
(***************************************************************************)
BroadcastOK(a, b) == a = b \/ a = 1 \/ b = 1
BIdx(n, t) == IF n = 1 THEN 1 ELSE t

Min(a, b) == IF a <= b THEN a ELSE b

\* a split that does not check that the sizes sum to n
TorchSplitUnchecked(n, sizes) ==
    [status |-> "ok",
     spans |-> [i \in 1..Len(sizes) |->
                  [j \in 1..sizes[i] |->
                      Min(n, SumSeq(SubSeq(sizes, 1, i)) - sizes[i] + j)]]]

\* torch.split(x, sizes) along a dimension of n rows: the spans of row indices,
\* or an error when the sizes do not sum to n
Offsets(sizes) == [i \in 1..Len(sizes) |-> SumSeq(SubSeq(sizes, 1, i))]
TorchSplit(n, sizes) ==
    IF SumSeq(sizes) # n THEN [status |-> "RuntimeError", spans |-> <<>>]
    ELSE [status |-> "ok",
          spans |-> [i \in 1..Len(sizes) |->
                       [j \in 1..sizes[i] |-> Offsets(sizes)[i] - sizes[i] + j]]]

(***************************************************************************)
(* ActionHead.                                                             *)
(***************************************************************************)
euler_resolution == 5

AssertionError == [status |-> "AssertionError"]

\* ActionHead.__init__ without the assertion on rot_pred_type
ActionHeadInitAnyRot(reduce, pos_pred_type, rot_pred_type, hidden_size, dim_actions, max_traj_len, traj_embed_size) ==
    IF reduce \notin {"max", "mean", "attn"} THEN AssertionError
    ELSE IF pos_pred_type \notin {"heatmap_mlp", "heatmap_disc"} THEN AssertionError
    ELSE IF ~(traj_embed_size > 0) /\ max_traj_len # 1 THEN AssertionError
    ELSE [status |-> "ok",
          reduce |-> reduce,
          pos_pred_type |-> pos_pred_type,
          rot_pred_type |-> rot_pred_type,
          hidden_size |-> hidden_size,
          dim_actions |-> dim_actions,
          euler_bins |-> 360 \div euler_resolution,
          pos_bins |-> PosBins,
          max_traj_len |-> max_traj_len,
          traj_embed_size |-> IF traj_embed_size > 0 THEN traj_embed_size ELSE 0,
          heatmap_out |-> IF pos_pred_type = "heatmap_disc" THEN 3 * PosBins * 2 ELSE 1 + 3,
          action_out |-> (IF rot_pred_type = "euler_disc" THEN (360 \div euler_resolution) * 3 + 1
                          ELSE dim_actions - 3)
                         + (IF reduce = "attn" THEN 1 ELSE 0) + 1]

\* ActionHead.__init__: the head's fields, or the assertion that fails
ActionHeadInit(reduce, pos_pred_type, rot_pred_type, hidden_size, dim_actions, max_traj_len, traj_embed_size) ==
    IF reduce \notin {"max", "mean", "attn"} THEN AssertionError
    ELSE IF pos_pred_type \notin {"heatmap_mlp", "heatmap_disc"} THEN AssertionError
    ELSE IF rot_pred_type \notin {"quat", "rot6d", "euler", "euler_disc"} THEN AssertionError
    ELSE IF ~(traj_embed_size > 0) /\ max_traj_len # 1 THEN AssertionError
    ELSE LET euler_bins == 360 \div euler_resolution
             output_size == (IF rot_pred_type = "euler_disc" THEN euler_bins * 3 + 1
                             ELSE dim_actions - 3)
                            + (IF reduce = "attn" THEN 1 ELSE 0)
         IN  [status |-> "ok",
              reduce |-> reduce,
              pos_pred_type |-> pos_pred_type,
              rot_pred_type |-> rot_pred_type,
              hidden_size |-> hidden_size,
              dim_actions |-> dim_actions,
              euler_bins |-> euler_bins,
              pos_bins |-> PosBins,
              max_traj_len |-> max_traj_len,
              traj_embed_size |-> IF traj_embed_size > 0 THEN traj_embed_size ELSE 0,
              heatmap_out |-> IF pos_pred_type = "heatmap_disc" THEN 3 * PosBins * 2 ELSE 1 + 3,
              action_out |-> output_size + 1]

\* the learned tables and layers, as fixed integer functions of their input:
\* nn.Embedding(max_traj_len, traj_embed_size)
TrajEmbedding(t, e) == (t + e) % 2

\* nn.Sequential(Linear, LeakyReLU, Dropout, Linear) on one row: a hidden value
\* of the row, then one output per channel; w tells the two MLPs apart
MlpHidden(w, row) == w + SumSeq([d \in 1..Len(row) |-> d * row[d]])
MlpOut(hidden, c) == ((hidden * c + c * c + hidden) % 3) - 1
Mlp(w, row, width) == LET hidden == MlpHidden(w, row) IN [c \in 1..width |-> MlpOut(hidden, c)]

\* exp(x / temp) in units of 1/1000, temp in {1, 2}
ExpOver(x, temp) ==
    IF x % temp = 0 THEN ExpMilli(x \div temp)
    ELSE CASE x = 1 -> 1649
           [] x = -1 -> 607
           [] x >= 3 -> 4482
           [] OTHER -> 223

\* torch.softmax(x / temp, dim=0) of the logits xs: weight j is num[j] / den
Softmax(xs, temp) ==
    LET num == [j \in 1..Len(xs) |-> ExpOver(xs[j], temp)]
    IN  [num |-> num, den |-> SumSeq(num)]

RECURSIVE SqrtFrom(_, _)
SqrtFrom(n, x) == IF x * x <= n THEN x ELSE SqrtFrom(n, (x + n \div x) \div 2)
ISqrt(n) == IF n <= 0 THEN 0 ELSE SqrtFrom(n, IF n > 40000 THEN 40000 ELSE n)

RECURSIVE MaxSeq(_)
MaxSeq(s) == IF Len(s) = 1 THEN s[1] ELSE Max(Head(s), MaxSeq(Tail(s)))

\* the branch of forward each mode string selects
PosBranch(pos_pred_type) ==
    CASE pos_pred_type \in {"heatmap_mlp", "heatmap_mlp_mix"} -> "heatmap_mlp"
      [] pos_pred_type = "heatmap_disc" -> "heatmap_disc"
      [] OTHER -> "unbound"
ReduceBranch(reduce) ==
    CASE reduce = "max" -> "max"
      [] reduce = "mean" -> "mean"
      [] OTHER -> "attn"
RotBranch(rot_pred_type) ==
    CASE rot_pred_type = "quat" -> "quat"
      [] rot_pred_type = "rot6d" -> "rot6d"
      [] rot_pred_type \in {"euler", "euler_delta"} -> "euler"
      [] rot_pred_type = "euler_disc" -> "euler_disc"
      [] OTHER -> "unbound"

\* point_embeds after the step broadcast and the trajectory embedding: row (p, t)
StepRows(h, point_embeds) ==
    [p \in 1..Len(point_embeds) |-> [t \in 1..h.max_traj_len |->
        point_embeds[p] \o [e \in 1..h.traj_embed_size |-> TrajEmbedding(t, e)]]]

\* the softmax taken over all the points of the batch, before the split
HeatmapsGlobal(heatmap_embeds, spans, T, temp) ==
    [i \in 1..Len(spans) |-> [t \in 1..T |->
        [num |-> [j \in 1..Len(spans[i]) |-> ExpOver(heatmap_embeds[spans[i][j]][t][1], temp)],
         den |-> SumSeq([p \in 1..Len(heatmap_embeds) |->
                            ExpOver(heatmap_embeds[p][t][1], temp)])]]]

\* heatmap_mlp: per sample the softmax over its points of channel 0, per step
Heatmaps(heatmap_embeds, spans, T, temp) ==
    [i \in 1..Len(spans) |-> [t \in 1..T |->
        Softmax([j \in 1..Len(spans[i]) |-> heatmap_embeds[spans[i][j]][t][1]], temp)]]

\* einsum('pt,ptc->tc', h, p) of one sample, in units of 1/1000
HeatmapPos(heatmaps, heatmap_embeds, coords, spans, T) ==
    [i \in 1..Len(spans) |-> [t \in 1..T |-> [c \in 1..3 |->
        (1000 * SumSeq([j \in 1..Len(spans[i]) |->
            heatmaps[i][t].num[j]
              * (coords[spans[i][j]][c] + heatmap_embeds[spans[i][j]][t][1 + c])]))
          \div heatmaps[i][t].den]]]

\* reduce = 'max' / 'mean': pool the rows of a sample, then the action MLP
PooledActionEmbeds(h, rows, spans, w) ==
    [i \in 1..Len(spans) |-> [t \in 1..h.max_traj_len |->
        LET D == Len(rows[1][t])
            col(d) == [j \in 1..Len(spans[i]) |-> rows[spans[i][j]][t][d]]
            pc_embeds == [d \in 1..D |->
                            IF h.reduce = "max" THEN MaxSeq(col(d))
                            ELSE SumSeq(col(d)) \div Len(spans[i])]
            out == Mlp(w, pc_embeds, h.action_out)
        IN  [c \in 1..h.action_out |-> 1000 * out[c]]]]

\* reduce = 'attn' (lines 125-129): action_embeds[:, :1] is the first STEP of
\* every channel and action_embeds[:, 1:] the steps after it
AttnActionEmbeds(h, per_point, spans, temp) ==
    [i \in 1..Len(spans) |->
        LET action_heatmaps == [c \in 1..h.action_out |->
                Softmax([j \in 1..Len(spans[i]) |-> per_point[spans[i][j]][1][c]], temp)]
        IN  [t \in 1..(h.max_traj_len - 1) |-> [c \in 1..h.action_out |->
                (1000 * SumSeq([j \in 1..Len(spans[i]) |->
                    action_heatmaps[c].num[j] * per_point[spans[i][j]][t + 1][c]]))
                  \div action_heatmaps[c].den]]]

\* xr of one (sample, step): the slice of action_embeds the rotation mode takes
RotSlice(h, a) ==
    CASE RotBranch(h.rot_pred_type) = "quat" ->
            LET norm == ISqrt(SumSeq([c \in 1..4 |-> a[c] * a[c]]))
            IN  [c \in 1..4 |-> FDiv(Num(1000 * a[c]), norm)]
      [] RotBranch(h.rot_pred_type) = "rot6d" -> SubSeq(a, 1, 6)
      [] RotBranch(h.rot_pred_type) = "euler" -> SubSeq(a, 1, 3)
      [] OTHER -> [b \in 1..h.euler_bins |-> [c \in 1..3 |-> a[(b - 1) * 3 + c]]]

HeatmapSeed == 0
ActionSeed == 1

\* ActionHead.forward: (xt, xr, xo, xstop), with the branches taken and the
\* locals heatmaps and action_mlp (the action MLP's output), or the error raised
ActionHeadForward(h, point_embeds, npoints_in_batch, coords, temp) ==
    LET N == Len(point_embeds)
        T == h.max_traj_len
        rows == StepRows(h, point_embeds)
        sp == TorchSplit(N, npoints_in_batch)
        heatmap_embeds == [p \in 1..N |-> [t \in 1..T |->
                              Mlp(HeatmapSeed, rows[p][t], h.heatmap_out)]]
        heatmaps == Heatmaps(heatmap_embeds, sp.spans, T, temp)
        xt == IF PosBranch(h.pos_pred_type) = "heatmap_mlp"
              THEN HeatmapPos(heatmaps, heatmap_embeds, coords, sp.spans, T)
              ELSE [t \in 1..T |-> [c \in 1..3 |-> [p \in 1..N |->
                      [b \in 1..(h.pos_bins * 2) |->
                          heatmap_embeds[p][t][(c - 1) * h.pos_bins * 2 + b]]]]]
        per_point == [p \in 1..N |-> [t \in 1..T |-> Mlp(ActionSeed, rows[p][t], h.action_out)]]
        action_embeds == IF ReduceBranch(h.reduce) = "attn"
                         THEN AttnActionEmbeds(h, per_point, sp.spans, temp)
                         ELSE PooledActionEmbeds(h, rows, sp.spans, ActionSeed)
        steps(i) == 1..Len(action_embeds[i])
    IN  IF sp.status # "ok" THEN [status |-> "RuntimeError"]
        ELSE IF PosBranch(h.pos_pred_type) = "unbound" \/ RotBranch(h.rot_pred_type) = "unbound"
        THEN [status |-> "UnboundLocalError"]
        ELSE [status |-> "ok",
              branches |-> [pos |-> PosBranch(h.pos_pred_type),
                            reduce |-> ReduceBranch(h.reduce),
                            rot |-> RotBranch(h.rot_pred_type)],
              heatmaps |-> IF PosBranch(h.pos_pred_type) = "heatmap_mlp" THEN heatmaps ELSE <<>>,
              heatmap_embeds |-> heatmap_embeds,
              action_mlp |-> IF ReduceBranch(h.reduce) = "attn" THEN per_point
                             ELSE action_embeds,
              pos |-> xt,
              rot |-> [i \in 1..Len(sp.spans) |-> [t \in steps(i) |->
                          RotSlice(h, action_embeds[i][t])]],
              open |-> [i \in 1..Len(sp.spans) |-> [t \in steps(i) |->
                          action_embeds[i][t][h.action_out - 1]]],
              stop |-> [i \in 1..Len(sp.spans) |-> [t \in steps(i) |->
                          action_embeds[i][t][h.action_out]]]]

(***************************************************************************)
(* MotionPlannerPTV3AdaNorm.forward after the backbone (lines 237-306,     *)
(* compute_loss=False, compute_final_action at its default).               *)
(***************************************************************************)
\* the result of a conversion this file imports (rotation_transform,
\* action_position_utils): channel c of f(arg), left as a term
External(f, arg, c) == [k |-> "ext", f |-> f, arg |-> arg, c |-> c]

\* torch.argmax: the index (from 0) of the first largest entry
ArgMax(s) ==
    (CHOOSE j \in 1..Len(s) :
        /\ \A k \in 1..Len(s) : s[k] <= s[j]
        /\ \A k \in 1..(j - 1) : s[k] < s[j]) - 1

\* pred_rot of one (sample, step) as a quaternion (lines 280-291)
ToQuaternion(h, xr) ==
    CASE h.rot_pred_type = "rot6d" ->
            [c \in 1..4 |-> External("matrix_to_quaternion(compute_rotation_matrix_from_ortho6d)", xr, c)]
      [] h.rot_pred_type = "euler" ->
            [c \in 1..4 |-> External("euler_to_quaternion", [a \in 1..3 |-> xr[a] * 180], c)]
      [] h.rot_pred_type = "euler_disc" ->
            [c \in 1..4 |-> External("discrete_euler_to_quaternion",
                                [a \in 1..3 |-> ArgMax([b \in 1..h.euler_bins |-> xr[b][a]])], c)]
      [] OTHER -> xr

\* cont_pred_pos of one (sample, step): get_best_pos_from_disc_pos on the
\* softmax of the sample's (3, points * bins) logits
ContPredPos(xt, span, t, coords) ==
    [c \in 1..3 |-> External("get_best_pos_from_disc_pos",
                       <<[a \in 1..3 |-> Concat([n \in 1..Len(span) |-> xt[t][a][span[n]]])],
                         [n \in 1..Len(span) |-> coords[span[n]]]>>, c)]

ModelForward(h, point_embeds, npoints_in_batch, coords, temp) ==
    LET pred_actions == ActionHeadForward(h, point_embeds, npoints_in_batch, coords, temp)
        sp == TorchSplit(Len(point_embeds), npoints_in_batch)
        batch_size == Len(pred_actions.rot)
        max_traj_len == Len(pred_actions.rot[1])
        pred_pos == IF h.pos_pred_type = "heatmap_disc"
                    THEN [i \in 1..Len(sp.spans) |-> [j \in 1..h.max_traj_len |->
                             ContPredPos(pred_actions.pos, sp.spans[i], j, coords)]]
                    ELSE pred_actions.pos
        pred_rot == [i \in 1..batch_size |-> [t \in 1..max_traj_len |->
                        ToQuaternion(h, pred_actions.rot[i][t])]]
    IN  IF pred_actions.status # "ok" THEN [status |-> pred_actions.status]
        \* reshape(batch_size, 0, -1) of an empty tensor; torch.cat of tensors
        \* whose step counts differ
        ELSE IF max_traj_len = 0 \/ Len(pred_pos[1]) # max_traj_len
        THEN [status |-> "RuntimeError"]
        ELSE [status |-> "ok",
              final_pred_actions |-> [i \in 1..batch_size |-> [t \in 1..max_traj_len |->
                  pred_pos[i][t] \o pred_rot[i][t]
                      \o <<pred_actions.open[i][t]>> \o <<pred_actions.stop[i][t]>>]]]

(***************************************************************************)
(* Elementwise losses of torch.nn.functional.                              *)
(***************************************************************************)
MseElem(p, t) == (p - t) * (p - t)

\* F.binary_cross_entropy_with_logits(x, y, reduction='none'), in 1/1000
BceWithLogits(x, y) ==
    1000 * Max(x, 0) - 1000 * x * y + LnMilli(1000 + ExpMilli(-Abs(x)))

LogSumExp(logits) == LnMilli(SumSeq([d \in 1..Len(logits) |-> ExpMilli(logits[d])]))

\* F.cross_entropy(input, class index), class indices from 0
CrossEntropyIdx(logits, cls) == LogSumExp(logits) - 1000 * logits[cls + 1]

\* F.cross_entropy(input, class probabilities)
CrossEntropyProb(logits, probs) ==
    SumSeq([d \in 1..Len(logits) |->
              probs[d] * (LogSumExp(logits) - 1000 * logits[d])])

(***************************************************************************)
(* RotationMatrixTransform (genrobo3d.utils.rotation_transform).           *)
(***************************************************************************)
\* quaternion_to_matrix: q = (r, i, j, k), rows of the 3x3 matrix
QuaternionToMatrix(q) ==
    LET r == q[1]
        i == q[2]
        j == q[3]
        k == q[4]
        two_s == 2 \div (r * r + i * i + j * j + k * k)
    IN  << << 1 - two_s * (j * j + k * k), two_s * (i * j - k * r), two_s * (i * k + j * r) >>,
           << two_s * (i * j + k * r), 1 - two_s * (i * i + k * k), two_s * (j * k - i * r) >>,
           << two_s * (i * k - j * r), two_s * (j * k + i * r), 1 - two_s * (i * i + j * j) >> >>

\* get_ortho6d_from_rotation_matrix: the first two columns
GetOrtho6d(m) == << m[1][1], m[2][1], m[3][1], m[1][2], m[2][2], m[3][2] >>

(***************************************************************************)
(* compute_loss.                                                           *)
(***************************************************************************)
euler_bins == 360 \div euler_resolution

MaskSum(masks) ==
    SumSeq([i \in 1..Len(masks) |-> SumSeq(masks[i])])

\* torch.sum(l * masks.unsqueeze(-1)): l is (B, T, C), masks is (B, Tm)
MaskedSum3(l, masks) ==
    LET T == Len(l[1])
        Tm == Len(masks[1])
    IN  IF ~BroadcastOK(T, Tm) THEN Raised
        ELSE Num(SumSeq([i \in 1..Len(l) |->
                 SumSeq([t \in 1..Max(T, Tm) |->
                     SumSeq(l[i][BIdx(T, t)]) * masks[i][BIdx(Tm, t)]])]))

\* (l * masks).sum(): l is (B, T), masks is (B, Tm)
MaskedSum2(l, masks) ==
    LET T == Len(l[1])
        Tm == Len(masks[1])
    IN  IF ~BroadcastOK(T, Tm) THEN Raised
        ELSE Num(SumSeq([i \in 1..Len(l) |->
                 SumSeq([t \in 1..Max(T, Tm) |->
                     l[i][BIdx(T, t)] * masks[i][BIdx(Tm, t)]])]))

\* one sample of the heatmap_disc loop: the cross entropy of the (t c) rows over
\* the (n b) classes, times the mask expanded to (t c), over mask.sum()
DiscPosLossOfSample(pred_pos, span, probs, mask_i) ==
    LET T == Len(pred_pos)
        R == 3 * T
        M == 3 * Len(mask_i)
        row(r) == Concat([n \in 1..Len(span) |->
                            pred_pos[((r - 1) \div 3) + 1][((r - 1) % 3) + 1][span[n]]])
        ce(r) == CrossEntropyProb(row(r), probs[((r - 1) \div 3) + 1][((r - 1) % 3) + 1])
        mask(r) == mask_i[((r - 1) \div 3) + 1]
    IN  IF ~BroadcastOK(R, M) THEN Raised
        ELSE FDiv(Num(SumSeq([r \in 1..Max(R, M) |-> ce(BIdx(R, r)) * mask(BIdx(M, r))])),
                  3 * SumSeq(mask_i))

RECURSIVE FSum(_)
FSum(vs) == IF Len(vs) = 0 THEN Num(0) ELSE FAdd(Head(vs), FSum(Tail(vs)))

\* the branch of compute_loss each mode string selects
LossPosBranch(pos_pred_type) ==
    IF pos_pred_type = "heatmap_disc" THEN "heatmap_disc" ELSE "heatmap_mlp"
LossRotBranch(rot_pred_type) ==
    IF rot_pred_type \in {"quat", "rot6d", "euler", "euler_disc"} THEN rot_pred_type
    ELSE "euler_delta"

PosLoss(cfg, pred_pos, tgt_pos, disc_pos_probs, npoints_in_batch, tgt_traj_masks) ==
    IF LossPosBranch(cfg.pos_pred_type) = "heatmap_disc"
    THEN LET sp == TorchSplit(Len(pred_pos[1][1]), npoints_in_batch)
         IN  IF sp.status # "ok" THEN Raised
             ELSE FDiv(FSum([i \in 1..Len(npoints_in_batch) |->
                               DiscPosLossOfSample(pred_pos, sp.spans[i],
                                   disc_pos_probs[i], tgt_traj_masks[i])]),
                       Len(npoints_in_batch))
    ELSE FDiv(FDiv(MaskedSum3([i \in 1..Len(pred_pos) |-> [t \in 1..Len(pred_pos[i]) |->
                                 [c \in 1..3 |-> 1000 * MseElem(pred_pos[i][t][c], tgt_pos[i][t][c])]]],
                              tgt_traj_masks),
                   MaskSum(tgt_traj_masks)), 3)

\* the quat branch: per (sample, step) the lower of the loss against the target
\* and against its negation, then the mean over all (sample, step)
QuatSelectNoFlip(rot_loss, rot_loss_) == rot_loss

QuatSelect(rot_loss, rot_loss_) ==
    LET select_mask == IF rot_loss < rot_loss_ THEN 1 ELSE 0
    IN  select_mask * rot_loss + (1 - select_mask) * rot_loss_

QuatRotLoss(pred_rot, tgt_rot) ==
    LET B == Len(pred_rot)
        T == Len(pred_rot[1])
        l(i, t) == SumSeq([c \in 1..4 |-> MseElem(pred_rot[i][t][c], tgt_rot[i][t][c])])
        l_(i, t) == SumSeq([c \in 1..4 |-> MseElem(pred_rot[i][t][c], -tgt_rot[i][t][c])])
    IN  Num((1000 * SumSeq([i \in 1..B |-> SumSeq([t \in 1..T |->
                 QuatSelect(l(i, t), l_(i, t))])])) \div (4 * B * T))

Rot6dLoss(pred_rot, tgt_rot) ==
    LET B == Len(pred_rot)
        T == Len(pred_rot[1])
        tgt_rot6d(i, t) == GetOrtho6d(QuaternionToMatrix(tgt_rot[i][t]))
    IN  Num((1000 * SumSeq([i \in 1..B |-> SumSeq([t \in 1..T |->
                 SumSeq([c \in 1..6 |-> MseElem(pred_rot[i][t][c], tgt_rot6d(i, t)[c])])])]))
            \div (6 * B * T))

EulerRotLoss(pred_rot, tgt_rot) ==
    LET B == Len(pred_rot)
        T == Len(pred_rot[1])
        shifted(x) == IF x < 0 THEN x + 2 ELSE IF x > 0 THEN x - 2 ELSE x
        el(p, x) ==
            LET rot_loss == MseElem(p, x)
                rot_loss_ == MseElem(p, shifted(x))
                select_mask == IF rot_loss < rot_loss_ THEN 1 ELSE 0
            IN  select_mask * rot_loss + (1 - select_mask) * rot_loss_
    IN  Num((1000 * SumSeq([i \in 1..B |-> SumSeq([t \in 1..T |->
                 SumSeq([c \in 1..3 |-> el(pred_rot[i][t][c], tgt_rot[i][t][c])])])]))
            \div (3 * B * T))

EulerDiscRotLoss(pred_rot, tgt_rot, tgt_traj_masks) ==
    LET ce == [i \in 1..Len(pred_rot) |-> [t \in 1..Len(pred_rot[i]) |-> [c \in 1..3 |->
                 CrossEntropyIdx([d \in 1..euler_bins |-> pred_rot[i][t][d][c]],
                                 tgt_rot[i][t][c])]]]
    IN  FDiv(FDiv(MaskedSum3(ce, tgt_traj_masks), MaskSum(tgt_traj_masks)), 3)

\* the else branch (euler_delta): F.mse_loss(pred_rot, tgt_rot)
PlainMseRotLoss(pred_rot, tgt_rot) ==
    LET B == Len(pred_rot)
        T == Len(pred_rot[1])
        C == Len(pred_rot[1][1])
    IN  Num((1000 * SumSeq([i \in 1..B |-> SumSeq([t \in 1..T |->
                 SumSeq([c \in 1..C |-> MseElem(pred_rot[i][t][c], tgt_rot[i][t][c])])])]))
            \div (C * B * T))

RotLoss(cfg, pred_rot, tgt_rot, tgt_traj_masks) ==
    CASE LossRotBranch(cfg.rot_pred_type) = "quat" -> QuatRotLoss(pred_rot, tgt_rot)
      [] LossRotBranch(cfg.rot_pred_type) = "rot6d" -> Rot6dLoss(pred_rot, tgt_rot)
      [] LossRotBranch(cfg.rot_pred_type) = "euler" -> EulerRotLoss(pred_rot, tgt_rot)
      [] LossRotBranch(cfg.rot_pred_type) = "euler_disc" ->
            EulerDiscRotLoss(pred_rot, tgt_rot, tgt_traj_masks)
      [] OTHER -> PlainMseRotLoss(pred_rot, tgt_rot)

\* openness loss and stop loss
MaskedBceLoss(pred, tgt, tgt_traj_masks) ==
    FDiv(MaskedSum2([i \in 1..Len(pred) |-> [t \in 1..Len(pred[i]) |->
                       BceWithLogits(pred[i][t], tgt[i][t])]], tgt_traj_masks),
         MaskSum(tgt_traj_masks))

compute_loss(cfg, pred_actions, tgt_actions, tgt_stops, disc_pos_probs, npoints_in_batch, tgt_traj_masks) ==
    LET dim == Len(tgt_actions[1][1])
        tgt_pos == [i \in 1..Len(tgt_actions) |-> [t \in 1..Len(tgt_actions[i]) |->
                      SubSeq(tgt_actions[i][t], 1, 3)]]
        tgt_rot == [i \in 1..Len(tgt_actions) |-> [t \in 1..Len(tgt_actions[i]) |->
                      SubSeq(tgt_actions[i][t], 4, dim - 1)]]
        tgt_open == [i \in 1..Len(tgt_actions) |-> [t \in 1..Len(tgt_actions[i]) |->
                      tgt_actions[i][t][dim]]]
        pos_loss == PosLoss(cfg, pred_actions.pos, tgt_pos, disc_pos_probs,
                            npoints_in_batch, tgt_traj_masks)
        rot_loss == RotLoss(cfg, pred_actions.rot, tgt_rot, tgt_traj_masks)
        open_loss == MaskedBceLoss(pred_actions.open, tgt_open, tgt_traj_masks)
        stop_loss == MaskedBceLoss(pred_actions.stop, tgt_stops, tgt_traj_masks)
        total_loss == FAdd(FAdd(FAdd(FScale(cfg.pos_weight, pos_loss),
                                     FScale(cfg.rot_weight, rot_loss)),
                                open_loss), stop_loss)
    IN  IF total_loss.k = "err" THEN [status |-> "RuntimeError"]
        ELSE [status |-> "ok", pos |-> pos_loss, rot |-> rot_loss,
              open |-> open_loss, stop |-> stop_loss, total |-> total_loss]

(***************************************************************************)
(* The calls of compute_loss: the arguments forward hands it (lines        *)
(* 298-303), drawn from bounded sets, and the caller changing one of them  *)
(* between two calls.                                                      *)
(***************************************************************************)
RotModes == {"quat", "rot6d", "euler", "euler_disc"}
PosModes == {"heatmap_mlp", "heatmap_disc"}
ReduceModes == {"max", "mean", "attn"}
MaskPatterns == {"ones", "zeros", "prefix"}
PredSeeds == {0, 1}

Samples == 1..BatchSize
NPoints(i) == 1 + (i % 2)
NClasses(i) == NPoints(i) * PosBins * 2

\* two ground-truth steps a sample's trajectory is made of
GTPos(k) == IF k = 1 THEN <<0, 1, -1>> ELSE <<2, 0, 1>>
GTRot(mode, k) ==
    CASE mode \in {"quat", "rot6d"} -> IF k = 1 THEN <<1, 0, 0, 0>> ELSE <<0, 1, 0, 0>>
      [] mode = "euler" -> IF k = 1 THEN <<1, 0, -1>> ELSE <<0, -1, 1>>
      [] OTHER -> IF k = 1 THEN <<0, 1, 0>> ELSE <<1, 0, euler_bins - 1>>
GTOpen(k) == IF k = 1 THEN 1 ELSE 0
GTStop(k) == IF k = 1 THEN 0 ELSE 1
GTAction(mode, k) == GTPos(k) \o GTRot(mode, k) \o <<GTOpen(k)>>
GTDisc(k, ncls) ==
    [c \in 1..3 |-> [d \in 1..ncls |-> IF d = (IF k = 1 THEN 1 ELSE ncls) THEN 1 ELSE 0]]

MaskOf(pat, i, t, Tm) ==
    CASE pat = "ones" -> 1
      [] pat = "zeros" -> 0
      [] OTHER -> IF t <= Tm - i + 1 THEN 1 ELSE 0

PredQuats == << <<1, 0, 0, 0>>, <<0, 1, 0, 0>>, <<-1, 1, 0, 0>> >>

PredActions(cfg, B, v) ==
    LET T == cfg.max_traj_len
        N == SumSeq([i \in 1..B |-> NPoints(i)])
    IN  [pos |-> IF cfg.pos_pred_type = "heatmap_disc"
                 THEN [t \in 1..T |-> [c \in 1..3 |-> [p \in 1..N |->
                         [b \in 1..(PosBins * 2) |-> (t + c + p + b + v) % 2]]]]
                 ELSE [i \in 1..B |-> [t \in 1..T |-> [c \in 1..3 |->
                         ((i + t + c + v) % 3) - 1]]],
         rot |-> CASE cfg.rot_pred_type = "quat" ->
                        [i \in 1..B |-> [t \in 1..T |-> PredQuats[((i + t + v) % 3) + 1]]]
                   [] cfg.rot_pred_type = "rot6d" ->
                        [i \in 1..B |-> [t \in 1..T |-> [c \in 1..6 |-> ((i + t + c + v) % 3) - 1]]]
                   [] cfg.rot_pred_type = "euler" ->
                        [i \in 1..B |-> [t \in 1..T |-> [c \in 1..3 |-> ((i + t + c + v) % 3) - 1]]]
                   [] OTHER ->
                        [i \in 1..B |-> [t \in 1..T |-> [d \in 1..euler_bins |->
                            [c \in 1..3 |-> (i + t + d + c + v) % 2]]]],
         open |-> [i \in 1..B |-> [t \in 1..T |-> ((i + 2 * t + v) % 3) - 1]],
         stop |-> [i \in 1..B |-> [t \in 1..T |-> ((2 * i + t + v) % 3) - 1]]]

LossBatch(cfg, B, Tm, pat, v) ==
    LET T == cfg.max_traj_len
        k(i, t) == 1 + ((i + t + v) % 2)
    IN  [gt_trajs |-> [i \in 1..B |-> [t \in 1..T |-> GTAction(cfg.rot_pred_type, k(i, t))]],
         gt_trajs_stop |-> [i \in 1..B |-> [t \in 1..T |-> GTStop(k(i, t))]],
         gt_trajs_disc_pos_probs |->
             [i \in 1..B |-> [t \in 1..T |-> GTDisc(k(i, t), NClasses(i))]],
         npoints_in_batch |-> [i \in 1..B |-> NPoints(i)],
         traj_masks |-> [i \in 1..B |-> [t \in 1..Tm |-> MaskOf(pat, i, t, Tm)]]]

At(op, i, t) == [op |-> op, i |-> i, t |-> t]

\* forward's call of compute_loss (lines 297-304)
CallComputeLoss(cfg, p, b) ==
    compute_loss(cfg, p, b.gt_trajs, b.gt_trajs_stop, b.gt_trajs_disc_pos_probs,
                 b.npoints_in_batch, b.traj_masks)

LossInit ==
    \E rot \in RotModes, pos \in PosModes, T \in 1..MaxTrajLen, Tm \in 1..MaxMaskLen,
       pat \in MaskPatterns, v \in PredSeeds :
        /\ config = [rot_pred_type |-> rot, pos_pred_type |-> pos, max_traj_len |-> T,
                     pos_weight |-> 1, rot_weight |-> 1]
        /\ preds = PredActions(config, BatchSize, v)
        /\ batch = LossBatch(config, BatchSize, Tm, pat, v)
        /\ head = None
        /\ outs = None
        /\ losses = None
        /\ nedits = 0
        /\ pc = At("init", 0, 0)

ComputeLoss ==
    /\ pc.op = "init"
    /\ losses' = CallComputeLoss(config, preds, batch)
    /\ pc' = At("compute_loss", 0, 0)
    /\ UNCHANGED <<config, head, batch, preds, outs, nedits>>

\* the batch is one whose masks have the predictions' trajectory length
WellFormed == Len(batch.traj_masks[1]) = config.max_traj_len

CanEdit == pc.op # "init" /\ nedits = 0 /\ WellFormed

\* the caller replaces the ground truth of step (i, t) and calls again
SetStepGT(i, t, k) ==
    /\ CanEdit
    /\ t <= config.max_traj_len
    /\ batch.gt_trajs[i][t] # GTAction(config.rot_pred_type, k)
    /\ batch' = [batch EXCEPT
                    !.gt_trajs[i][t] = GTAction(config.rot_pred_type, k),
                    !.gt_trajs_stop[i][t] = GTStop(k),
                    !.gt_trajs_disc_pos_probs[i][t] = GTDisc(k, NClasses(i))]
    /\ losses' = CallComputeLoss(config, preds, batch')
    /\ nedits' = nedits + 1
    /\ pc' = At("set_gt", i, t)
    /\ UNCHANGED <<config, head, preds, outs>>

\* the caller flips the validity mask of step (i, t) and calls again
SetMask(i, t) ==
    /\ CanEdit
    /\ t <= config.max_traj_len
    /\ batch' = [batch EXCEPT !.traj_masks[i][t] = 1 - @]
    /\ losses' = CallComputeLoss(config, preds, batch')
    /\ nedits' = nedits + 1
    /\ pc' = At("set_mask", i, t)
    /\ UNCHANGED <<config, head, preds, outs>>

\* the caller negates the target quaternions of the (sample, step) entries S
NegateTargets(S) ==
    /\ CanEdit
    /\ config.rot_pred_type = "quat"
    /\ S # {}
    /\ \A e \in S : e[2] <= config.max_traj_len
    /\ batch' = [batch EXCEPT !.gt_trajs =
                    [i \in 1..Len(@) |-> [t \in 1..Len(@[i]) |->
                        IF <<i, t>> \in S
                        THEN [c \in 1..Len(@[i][t]) |->
                                 IF c >= 4 /\ c < Len(@[i][t]) THEN -@[i][t][c] ELSE @[i][t][c]]
                        ELSE @[i][t]]]]
    /\ losses' = CallComputeLoss(config, preds, batch')
    /\ nedits' = nedits + 1
    /\ pc' = At("negate", 0, 0)
    /\ UNCHANGED <<config, head, preds, outs>>

LossNext ==
    \/ ComputeLoss
    \/ \E i \in Samples, t \in 1..MaxTrajLen, k \in {1, 2} : SetStepGT(i, t, k)
    \/ \E i \in Samples, t \in 1..MaxTrajLen : SetMask(i, t)
    \/ \E S \in SUBSET (Samples \X (1..MaxTrajLen)) : NegateTargets(S)

SpecLoss == LossInit /\ [][LossNext]_vars

(***************************************************************************)
(* Claims about compute_loss.                                              *)
(***************************************************************************)
LossKeys == {"pos", "rot", "open", "stop", "total"}
Called == pc.op # "init"

\* C1: in every rotation and position mode, changing the ground truth of a step
\* whose validity mask is 0 (predictions, masks and the other ground truth kept)
\* leaves each of the losses pos, rot, open, stop and total unchanged.
C1_MaskedStepHasNoInfluence ==
    [][(/\ pc'.op = "set_gt"
        /\ batch.traj_masks[pc'.i][pc'.t] = 0
        /\ \A key \in LossKeys : losses[key].k = "num")
          => losses' = losses]_vars

\* what the code does keep: the masked terms (pos, open, stop, and rot under
\* euler_disc) do not read the ground truth of a masked step
MaskedTermsIgnoreMaskedStep ==
    [][(pc'.op = "set_gt" /\ batch.traj_masks[pc'.i][pc'.t] = 0)
          => /\ losses'.pos = losses.pos
             /\ losses'.open = losses.open
             /\ losses'.stop = losses.stop
             /\ config.rot_pred_type = "euler_disc" => losses'.rot = losses.rot]_vars

\* a mismatch that cannot be broadcast, or any mismatch under heatmap_disc, raises
UnbroadcastableMismatchRaises ==
    (/\ Called
     /\ \/ ~BroadcastOK(Len(batch.traj_masks[1]), config.max_traj_len)
        \/ /\ config.pos_pred_type = "heatmap_disc"
           /\ Len(batch.traj_masks[1]) # config.max_traj_len)
        => losses.status = "RuntimeError"

\* C4: with rot_pred_type = 'quat', negating the target quaternion of any set of
\* (sample, step) entries leaves the rot loss and the total loss unchanged, ties
\* between the loss against q and against -q included.
C4_QuatSignFlipInvariant ==
    [][pc'.op = "negate"
          => /\ losses.status = "ok" /\ losses'.status = "ok"
             /\ losses'.rot = losses.rot
             /\ losses'.total = losses.total]_vars

QuatDot(i, t) ==
    SumSeq([c \in 1..4 |-> preds.rot[i][t][c] * batch.gt_trajs[i][t][3 + c]])

\* a negated target has been scored: one entry ties (the prediction is orthogonal
\* to the target), another does not
C4_Witness ==
    /\ pc.op = "negate"
    /\ config.rot_pred_type = "quat"
    /\ losses.status = "ok"
    /\ losses.rot.k = "num"
    /\ losses.rot.v > 0
    /\ \E i \in Samples, t \in 1..config.max_traj_len : QuatDot(i, t) = 0
    /\ \E i \in Samples, t \in 1..config.max_traj_len : QuatDot(i, t) # 0

ZeroDenominator ==
    \/ MaskSum(batch.traj_masks) = 0
    \/ /\ config.pos_pred_type = "heatmap_disc"
       /\ \E i \in Samples : SumSeq(batch.traj_masks[i]) = 0

\* C6: when a normalization denominator is zero, compute_loss raises or guards
\* the division: the dictionary it returns holds no NaN.
C6_NoNaNLoss ==
    (Called /\ ZeroDenominator)
        => (losses.status # "ok" \/ \A key \in LossKeys : losses[key].k # "nan")

\* C7: when the masks' step length differs from the predictions' trajectory
\* length, compute_loss raises instead of returning losses.
C7_MaskLengthMismatchRaises ==
    (Called /\ Len(batch.traj_masks[1]) # config.max_traj_len)
        => losses.status # "ok"

(***************************************************************************)
(* The calls of ActionHead.forward and of the model's forward: a head as   *)
(* the model builds it, the backbone's per-point embeddings and            *)
(* coordinates, and the per-sample point counts, drawn from bounded sets.  *)
(***************************************************************************)
Temps == {1, 2}

\* act_cfg.dim_actions of each rotation mode: position, rotation, openness
DimActions(rot) ==
    CASE rot = "quat" -> 3 + 4 + 1
      [] rot = "rot6d" -> 3 + 6 + 1
      [] OTHER -> 3 + 3 + 1

RECURSIVE SeqsUpTo(_, _)
SeqsUpTo(S, n) ==
    IF n = 0 THEN {<<>>}
    ELSE LET shorter == SeqsUpTo(S, n - 1)
         IN  shorter \cup {Append(q, x) : q \in {r \in shorter : Len(r) = n - 1}, x \in S}

NPointsLists == SeqsUpTo(1..MaxPerSample, BatchSize) \ {<<>>}

PointEmbeds(N) == [p \in 1..N |-> [d \in 1..HiddenSize |-> ((p * d) % 3) - 1]]
Coords(N) == [p \in 1..N |-> [c \in 1..3 |-> (p * c) % 4]]

HeadInit ==
    \E reduce \in ReduceModes, pos \in PosModes, rot \in RotModes,
       T \in 1..MaxTrajLen, tes \in {0, 1}, np \in NPointsLists,
       N \in 1..(BatchSize * MaxPerSample + 1), temp \in Temps :
        /\ N \in {SumSeq(np) - 1, SumSeq(np), SumSeq(np) + 1}
        /\ config = [reduce |-> reduce, pos_pred_type |-> pos, rot_pred_type |-> rot,
                     max_traj_len |-> T, traj_embed_size |-> tes,
                     dim_actions |-> DimActions(rot), pos_heatmap_temp |-> temp]
        /\ head = ActionHeadInit(reduce, pos, rot, HiddenSize, DimActions(rot), T, tes)
        /\ head.status = "ok"
        /\ batch = [point_embeds |-> PointEmbeds(N), coords |-> Coords(N),
                    npoints_in_batch |-> np]
        /\ preds = None
        /\ outs = None
        /\ losses = None
        /\ nedits = 0
        /\ pc = At("init", 0, 0)

\* self.act_proj_head(feat, npoints_in_batch, coords=coord, temp=...)
ActForward ==
    /\ pc.op = "init"
    /\ preds' = ActionHeadForward(head, batch.point_embeds, batch.npoints_in_batch,
                                  batch.coords, config.pos_heatmap_temp)
    /\ pc' = At("act_forward", 0, 0)
    /\ UNCHANGED <<config, head, batch, outs, losses, nedits>>

\* model(batch): the head, then the final actions
Forward ==
    /\ pc.op = "init"
    /\ preds' = ActionHeadForward(head, batch.point_embeds, batch.npoints_in_batch,
                                  batch.coords, config.pos_heatmap_temp)
    /\ outs' = ModelForward(head, batch.point_embeds, batch.npoints_in_batch,
                            batch.coords, config.pos_heatmap_temp)
    /\ pc' = At("forward", 0, 0)
    /\ UNCHANGED <<config, head, batch, losses, nedits>>

HeadNext == ActForward \/ Forward

SpecHead == HeadInit /\ [][HeadNext]_vars

(***************************************************************************)
(* Claims about ActionHead.forward and forward.                            *)
(***************************************************************************)
Consistent == SumSeq(batch.npoints_in_batch) = Len(batch.point_embeds)
NumSamples == Len(batch.npoints_in_batch)

\* the sample a point belongs to, from the counts alone
SampleOf(p) ==
    CHOOSE i \in 1..NumSamples :
        /\ p <= SumSeq(SubSeq(batch.npoints_in_batch, 1, i))
        /\ p > SumSeq(SubSeq(batch.npoints_in_batch, 1, i - 1))

\* the sum of f[p] over the points p of sample i
SumOverSample(i, f) ==
    SumSeq([p \in 1..Len(batch.point_embeds) |-> IF SampleOf(p) = i THEN f[p] ELSE 0])

\* the attention pooling of channel c of the action MLP at step t: the weights
\* are the softmax over the sample's points of channel 0 (index 1) at step t
ExpectedAttnPool(i, t, c) ==
    LET w == [p \in 1..Len(batch.point_embeds) |->
                 ExpOver(preds.action_mlp[p][t][1], config.pos_heatmap_temp)]
    IN  (1000 * SumOverSample(i, [p \in 1..Len(batch.point_embeds) |->
                                    w[p] * preds.action_mlp[p][t][c]]))
          \div SumOverSample(i, w)

\* C3: with reduce = 'attn', for every sample and every one of the max_traj_len
\* steps the pooled output is the sum of channels 1.. of the action MLP weighted
\* by the softmax over the sample's points of channel 0, so rotation, openness
\* and stop have max_traj_len steps per sample.
C3_AttnPoolsEveryStep ==
    (pc.op = "act_forward" /\ head.reduce = "attn" /\ Consistent)
        => /\ preds.status = "ok"
           /\ \A i \in 1..NumSamples :
                 /\ Len(preds.rot[i]) = head.max_traj_len
                 /\ Len(preds.open[i]) = head.max_traj_len
                 /\ Len(preds.stop[i]) = head.max_traj_len
                 /\ \A t \in 1..head.max_traj_len :
                       /\ preds.open[i][t] = ExpectedAttnPool(i, t, head.action_out - 1)
                       /\ preds.stop[i][t] = ExpectedAttnPool(i, t, head.action_out)

\* C8: when the per-sample point counts do not sum to the number of rows of
\* point_embeds, ActionHead.forward raises and returns nothing, in every
\* reduce mode and position mode.
C8_PointCountMismatchRaises ==
    (pc.op = "act_forward" /\ ~Consistent) => preds.status = "RuntimeError"

C8_Witness ==
    /\ pc.op = "act_forward"
    /\ ~Consistent
    /\ head.reduce = "attn"
    /\ head.pos_pred_type = "heatmap_disc"
    /\ preds.status = "RuntimeError"

\* C9: with rot_pred_type = 'quat' and pos_pred_type = 'heatmap_mlp', forward
\* returns a (batch, max_traj_len, 3+4+1+1) tensor: position, quaternion, then
\* the second-to-last and the last channel of the action MLP output (openness,
\* stop), in every reduce mode.
C9_FinalActionLayout ==
    (/\ pc.op = "forward"
     /\ head.rot_pred_type = "quat"
     /\ head.pos_pred_type = "heatmap_mlp"
     /\ Consistent)
        => /\ outs.status = "ok"
           /\ Len(outs.final_pred_actions) = NumSamples
           /\ \A i \in 1..NumSamples :
                 /\ Len(outs.final_pred_actions[i]) = head.max_traj_len
                 /\ \A t \in 1..head.max_traj_len :
                       LET a == outs.final_pred_actions[i][t]
                       IN  /\ Len(a) = 3 + 4 + 1 + 1
                           /\ SubSeq(a, 1, 3) = preds.pos[i][t]
                           /\ SubSeq(a, 4, 7) = preds.rot[i][t]
                           /\ a[8] = preds.open[i][t]
                           /\ a[9] = preds.stop[i][t]
                           /\ head.reduce # "attn" =>
                                 /\ a[8] = preds.action_mlp[i][t][head.action_out - 1]
                                 /\ a[9] = preds.action_mlp[i][t][head.action_out]

\* what the code does keep: the layout of C9 under reduce = 'max' and 'mean'
PooledFinalActionLayout ==
    head.reduce = "attn" \/ C9_FinalActionLayout

\* C10: in heatmap_mlp mode, for every partition of the points, per sample and
\* step the weights of the sample's points sum to 1, each weight is the
\* exponential of the point's own logit over the sum of those of the same sample
\* and step, and the position is the weighted sum of coordinate + offset over
\* the sample's points only.
C10_HeatmapPerSamplePerStep ==
    (/\ pc.op = "act_forward"
     /\ head.pos_pred_type = "heatmap_mlp"
     /\ Consistent)
        => /\ preds.status = "ok"
           /\ Len(preds.pos) = NumSamples
           /\ \A i \in 1..NumSamples : \A t \in 1..head.max_traj_len :
                 LET h == preds.heatmaps[i][t]
                     first == SumSeq(SubSeq(batch.npoints_in_batch, 1, i - 1))
                     e == [p \in 1..Len(batch.point_embeds) |->
                              ExpOver(preds.heatmap_embeds[p][t][1], config.pos_heatmap_temp)]
                 IN  /\ Len(h.num) = batch.npoints_in_batch[i]
                     /\ h.den > 0
                     /\ SumSeq(h.num) = h.den
                     /\ h.den = SumOverSample(i, e)
                     /\ \A j \in 1..Len(h.num) : h.num[j] = e[first + j]
                     /\ \A c \in 1..3 :
                           preds.pos[i][t][c] =
                               (1000 * SumOverSample(i, [p \in 1..Len(batch.point_embeds) |->
                                   e[p] * (batch.coords[p][c]
                                             + preds.heatmap_embeds[p][t][1 + c])]))
                                 \div SumOverSample(i, e)

\* two samples of different sizes, more than one step, weights that differ
C10_Witness ==
    /\ pc.op = "act_forward"
    /\ head.pos_pred_type = "heatmap_mlp"
    /\ Consistent
    /\ preds.status = "ok"
    /\ NumSamples >= 2
    /\ batch.npoints_in_batch[1] # batch.npoints_in_batch[2]
    /\ head.max_traj_len >= 2
    /\ \E i \in 1..NumSamples, t \in 1..head.max_traj_len :
          \E j, k \in 1..batch.npoints_in_batch[i] :
              preds.heatmaps[i][t].num[j] # preds.heatmaps[i][t].num[k]

(***************************************************************************)
(* MotionPlannerPTV3AdaNorm.prepare_ptv3_batch: the context encoder        *)
(* (lines 202-223).  The point fields of outs (coord, offset) are the      *)
(* batch's own.                                                            *)
(***************************************************************************)
\* self.txt_fc, self.txt_attn_fc: nn.Linear on one token embedding
TxtFc(x) == [c \in 1..ContextChannels |-> c * x + 1]
TxtAttnFc(x) == 1 - x

\* self.pose_embedding (RobotPoseEmbedding of genrobo3d.models.base) on one pose
PoseEmbedding(pose) == [c \in 1..ContextChannels |-> 1000 * (pose + c)]

\* ctx_embeds += pose_embeds: in place, so pose_embeds must broadcast to the
\* shape ctx_embeds has
AddInPlace(ctx_embeds, pose_embeds) ==
    IF Len(pose_embeds) # Len(ctx_embeds) /\ Len(pose_embeds) # 1
    THEN [status |-> "RuntimeError", rows |-> <<>>]
    ELSE [status |-> "ok",
          rows |-> [r \in 1..Len(ctx_embeds) |-> [c \in 1..ContextChannels |->
                      ctx_embeds[r][c] + pose_embeds[BIdx(Len(pose_embeds), r)][c]]]]

\* lines 205-211: per sample the softmax over its tokens, then the weighted sum
AttnReduce(txt_embeds, projected, spans) ==
    [i \in 1..Len(spans) |->
        LET txt_weight == Softmax([j \in 1..Len(spans[i]) |-> TxtAttnFc(txt_embeds[spans[i][j]])], 1)
        IN  [c \in 1..ContextChannels |->
                SumSeq([j \in 1..Len(spans[i]) |-> txt_weight.num[j] * projected[spans[i][j]][c]])
                  \div txt_weight.den]]

ContextEncoder(cfg, b) ==
    LET projected == [r \in 1..Len(b.txt_embeds) |-> [c \in 1..ContextChannels |->
                         1000 * TxtFc(b.txt_embeds[r])[c]]]
        sp == TorchSplit(Len(b.txt_embeds), b.txt_lens)
        ctx_embeds == IF cfg.txt_reduce = "attn"
                      THEN AttnReduce(b.txt_embeds, projected, sp.spans)
                      ELSE projected
        pose_embeds == [i \in 1..Len(b.ee_poses) |-> PoseEmbedding(b.ee_poses[i])]
        added == AddInPlace(ctx_embeds, pose_embeds)
    IN  IF cfg.txt_reduce = "attn" /\ sp.status # "ok" THEN [status |-> "RuntimeError"]
        ELSE IF cfg.use_ee_pose /\ added.status # "ok" THEN [status |-> "RuntimeError"]
        ELSE [status |-> "ok",
              coord |-> b.coord,
              offset |-> b.offset,
              context |-> IF cfg.use_ee_pose THEN added.rows ELSE ctx_embeds]

TxtLensLists == SeqsUpTo(1..MaxTokens, BatchSize) \ {<<>>}

ContextInit ==
    \E txt_reduce \in {"attn", "mean"}, use_ee_pose \in BOOLEAN, lens \in TxtLensLists,
       R \in 1..(BatchSize * MaxTokens + 1), v \in PredSeeds :
        /\ R \in {SumSeq(lens) - 1, SumSeq(lens), SumSeq(lens) + 1}
        /\ config = [txt_reduce |-> txt_reduce, use_ee_pose |-> use_ee_pose]
        /\ batch = [txt_embeds |-> [r \in 1..R |-> (r + v) % 3],
                    txt_lens |-> lens,
                    ee_poses |-> [i \in 1..Len(lens) |-> (i + v) % 2],
                    coord |-> Coords(Len(lens)),
                    offset |-> [i \in 1..Len(lens) |-> i]]
        /\ head = None
        /\ preds = None
        /\ outs = None
        /\ losses = None
        /\ nedits = 0
        /\ pc = At("init", 0, 0)

PrepareBatch ==
    /\ pc.op = "init"
    /\ outs' = ContextEncoder(config, batch)
    /\ pc' = At("prepare_ptv3_batch", 0, 0)
    /\ UNCHANGED <<config, head, batch, preds, losses, nedits>>

\* the caller appends a token to sample i's instruction before the call
AddToken(i) ==
    /\ pc.op = "init"
    /\ nedits = 0
    /\ i <= Len(batch.txt_lens)
    /\ batch' = [batch EXCEPT !.txt_lens[i] = @ + 1,
                              !.txt_embeds = Append(@, Len(@) % 3)]
    /\ nedits' = nedits + 1
    /\ UNCHANGED <<config, head, preds, outs, losses, pc>>

ContextNext == PrepareBatch \/ \E i \in Samples : AddToken(i)

SpecContext == ContextInit /\ [][ContextNext]_vars

TxtConsistent == SumSeq(batch.txt_lens) = Len(batch.txt_embeds)

\* C2: prepare_ptv3_batch produces a context with exactly one row per sample,
\* whatever the per-sample token counts (each >= 1), in 'attn' mode and in the
\* non-attention mode, with or without pose conditioning.
C2_OneContextRowPerSample ==
    (pc.op = "prepare_ptv3_batch" /\ TxtConsistent)
        => /\ outs.status = "ok"
           /\ Len(outs.context) = Len(batch.txt_lens)

\* what the code does keep: one row per sample under txt_reduce = 'attn'
AttnOneContextRowPerSample ==
    (pc.op = "prepare_ptv3_batch" /\ TxtConsistent /\ config.txt_reduce = "attn")
        => /\ outs.status = "ok"
           /\ Len(outs.context) = Len(batch.txt_lens)

(***************************************************************************)
(* Construction: ActionHead.__init__ as the model's __init__ calls it      *)
(* (lines 178-184), then a call of the head that was built.                *)
(***************************************************************************)
ConstructInit ==
    \E reduce \in ReduceModes \cup {"sum"}, pos \in PosModes \cup {"heatmap_mlp_mix"},
       rot \in RotModes \cup {"euler_delta"}, T \in 1..MaxTrajLen, tes \in {0, 1},
       temp \in Temps :
        /\ config = [reduce |-> reduce, pos_pred_type |-> pos, rot_pred_type |-> rot,
                     max_traj_len |-> T, traj_embed_size |-> tes,
                     dim_actions |-> DimActions(rot), pos_heatmap_temp |-> temp]
        /\ batch = [point_embeds |-> PointEmbeds(1 + MaxPerSample),
                    coords |-> Coords(1 + MaxPerSample),
                    npoints_in_batch |-> <<1, MaxPerSample>>]
        /\ head = None
        /\ preds = None
        /\ outs = None
        /\ losses = None
        /\ nedits = 0
        /\ pc = At("init", 0, 0)

Construct ==
    /\ pc.op = "init"
    /\ head' = ActionHeadInit(config.reduce, config.pos_pred_type, config.rot_pred_type,
                              HiddenSize, config.dim_actions, config.max_traj_len,
                              config.traj_embed_size)
    /\ pc' = At("construct", 0, 0)
    /\ UNCHANGED <<config, batch, preds, outs, losses, nedits>>

ConstructedForward ==
    /\ pc.op = "construct"
    /\ head.status = "ok"
    /\ preds' = ActionHeadForward(head, batch.point_embeds, batch.npoints_in_batch,
                                  batch.coords, config.pos_heatmap_temp)
    /\ pc' = At("act_forward", 0, 0)
    /\ UNCHANGED <<config, head, batch, outs, losses, nedits>>

ConstructNext == Construct \/ ConstructedForward

SpecConstruct == ConstructInit /\ [][ConstructNext]_vars

ValidConfig ==
    /\ config.reduce \in {"max", "mean", "attn"}
    /\ config.pos_pred_type \in {"heatmap_mlp", "heatmap_disc"}
    /\ config.rot_pred_type \in {"quat", "rot6d", "euler", "euler_disc"}
    /\ config.traj_embed_size > 0 \/ config.max_traj_len = 1

\* C5: construction fails whenever reduce, pos_pred_type or rot_pred_type is
\* not one of its modes, or traj_embed_size <= 0 while max_traj_len # 1; and a
\* mode that passes construction selects, in forward and in compute_loss, the
\* branch written for it.
C5_ConstructionGuardsModes ==
    /\ (pc.op # "init" /\ ~ValidConfig) => head.status = "AssertionError"
    /\ (pc.op # "init" /\ head.status = "ok") =>
          /\ PosBranch(head.pos_pred_type) = head.pos_pred_type
          /\ ReduceBranch(head.reduce) = head.reduce
          /\ RotBranch(head.rot_pred_type) = head.rot_pred_type
          /\ LossPosBranch(head.pos_pred_type) = head.pos_pred_type
          /\ LossRotBranch(head.rot_pred_type) = head.rot_pred_type
    /\ pc.op = "act_forward" =>
          /\ preds.status = "ok"
          /\ preds.branches = [pos |-> head.pos_pred_type, reduce |-> head.reduce,
                               rot |-> head.rot_pred_type]

C5_Witness ==
    /\ pc.op = "act_forward"
    /\ preds.status = "ok"
    /\ head.rot_pred_type = "euler"
    /\ head.reduce = "mean"
    /\ head.pos_pred_type = "heatmap_disc"

(***************************************************************************)
(* MotionPlannerPTV3CA.prepare_ptv3_batch (lines 438-465): the point       *)
(* fields, then the context sequence with its offsets.                     *)
(***************************************************************************)
\* self.pc_label_embedding: row k of nn.Embedding(4, pc_label_channels)
PcLabelEmbedding(k, channels) == [c \in 1..channels |-> k + c]

\* line 446: per point the label-weighted sum of the 4 embedding rows
PcLabelEmbeds(pc_labels, channels) ==
    [p \in 1..Len(pc_labels) |-> [c \in 1..channels |->
        SumSeq([k \in 1..4 |-> PcLabelEmbedding(k - 1, channels)[c] * pc_labels[p][k]])]]

\* offset2batch (genrobo3d.models.PointTransformerV3.model): the sample of each point
Offset2Batch(offset) ==
    IF offset = <<>> THEN <<>>
    ELSE [p \in 1..offset[Len(offset)] |->
            (CHOOSE i \in 1..Len(offset) :
                /\ p <= offset[i]
                /\ \A j \in 1..(i - 1) : p > offset[j]) - 1]

\* torch.cumsum(ctx_lens, dim=0)
CumSum(lens) == [i \in 1..Len(lens) |-> SumSeq(SubSeq(lens, 1, i))]

\* ctx_lens += 1 without the increment: the offsets of the tokens alone
CtxLensOfTokens(txt_lens, use_ee_pose) == txt_lens

\* lines 455-460: ctx_lens is a new tensor built from the list, incremented in
\* place when a pose token is appended
CtxLens(txt_lens, use_ee_pose) ==
    [i \in 1..Len(txt_lens) |-> IF use_ee_pose THEN txt_lens[i] + 1 ELSE txt_lens[i]]

\* line 459: zip(ctx_embeds, pose_embeds) stops at the shorter of the two
ZipCat(chunks, pose_embeds) ==
    [i \in 1..Min(Len(chunks), Len(pose_embeds)) |-> Append(chunks[i], pose_embeds[i])]

CAPrepare(cfg, b) ==
    LET txt_embeds == [r \in 1..Len(b.txt_embeds) |-> [c \in 1..ContextChannels |->
                          1000 * TxtFc(b.txt_embeds[r])[c]]]
        sp == TorchSplit(Len(b.txt_embeds), b.txt_lens)
        chunks == [i \in 1..Len(sp.spans) |->
                      [j \in 1..Len(sp.spans[i]) |-> txt_embeds[sp.spans[i][j]]]]
        pose_embeds == [i \in 1..Len(b.ee_poses) |-> PoseEmbedding(b.ee_poses[i])]
        ctx_embeds == IF cfg.use_ee_pose THEN ZipCat(chunks, pose_embeds) ELSE chunks
    IN  IF sp.status # "ok" THEN [status |-> "RuntimeError"]
        ELSE [status |-> "ok",
              coord |-> [p \in 1..Len(b.pc_fts) |-> SubSeq(b.pc_fts[p], 1, 3)],
              offset |-> b.offset,
              batch |-> Offset2Batch(b.offset),
              feat |-> [p \in 1..Len(b.pc_fts) |->
                          b.pc_fts[p] \o PcLabelEmbeds(b.pc_labels, cfg.pc_label_channels)[p]],
              context |-> Concat(ctx_embeds),
              context_offset |-> CumSum(CtxLens(b.txt_lens, cfg.use_ee_pose))]

CAInit ==
    \E txt_reduce \in {"attn", "mean"}, use_ee_pose \in BOOLEAN, lens \in TxtLensLists,
       R \in 1..(BatchSize * MaxTokens + 1), P \in 1..BatchSize, channels \in {1, 2} :
        /\ R \in {SumSeq(lens) - 1, SumSeq(lens), SumSeq(lens) + 1}
        /\ P \in {Len(lens) - 1, Len(lens)}
        /\ config = [txt_reduce |-> txt_reduce, use_ee_pose |-> use_ee_pose,
                     pc_label_channels |-> channels]
        /\ batch = [txt_embeds |-> [r \in 1..R |-> r % 3],
                    txt_lens |-> lens,
                    ee_poses |-> [i \in 1..P |-> i % 2],
                    pc_fts |-> Coords(Len(lens)),
                    pc_labels |-> [p \in 1..Len(lens) |->
                                     [k \in 1..4 |-> IF k = 1 + (p % 4) THEN 1 ELSE 0]],
                    coord |-> Coords(Len(lens)),
                    offset |-> [i \in 1..Len(lens) |-> i]]
        /\ head = None
        /\ preds = None
        /\ outs = None
        /\ losses = None
        /\ nedits = 0
        /\ pc = At("init", 0, 0)

\* MotionPlannerPTV3CA.prepare_ptv3_batch(batch): batch' is the caller's batch
\* as the call leaves it
CAPrepareBatch ==
    /\ pc.op = "init"
    /\ outs' = CAPrepare(config, batch)
    /\ batch' = batch
    /\ pc' = At("ca_prepare_ptv3_batch", 0, 0)
    /\ UNCHANGED <<config, head, preds, losses, nedits>>

CANext == CAPrepareBatch \/ PrepareBatch

SpecCA == CAInit /\ [][CANext]_vars

PoseConsistent == Len(batch.ee_poses) = Len(batch.txt_lens)

\* the context rows sample i owns under the CA variant: its projected tokens in
\* order, then its pose token
ExpectedCARows(i) ==
    LET first == SumSeq(SubSeq(batch.txt_lens, 1, i - 1))
        tokens == [j \in 1..batch.txt_lens[i] |-> [c \in 1..ContextChannels |->
                      1000 * TxtFc(batch.txt_embeds[first + j])[c]]]
    IN  IF config.use_ee_pose THEN Append(tokens, PoseEmbedding(batch.ee_poses[i]))
        ELSE tokens

\* C11: for a batch whose token counts (each >= 1) sum to the token rows and
\* that has one pose per sample, MotionPlannerPTV3CA.prepare_ptv3_batch returns
\* a context in which sample i owns txt_lens[i] + p consecutive rows (its
\* projected tokens in order, then its pose token when p = 1), context_offset[i]
\* is the sum of txt_lens[j] + p over j <= i, context_offset is strictly
\* increasing and ends at the number of context rows, and the caller's txt_lens
\* is unchanged; the AdaNorm variant's output has no context_offset field.
C11_ContextSequenceAndOffsets ==
    /\ [][(pc'.op = "ca_prepare_ptv3_batch" /\ TxtConsistent /\ PoseConsistent) =>
            LET p == IF config.use_ee_pose THEN 1 ELSE 0
                B == Len(batch.txt_lens)
                off == outs'.context_offset
            IN  /\ outs'.status = "ok"
                /\ batch'.txt_lens = batch.txt_lens
                /\ Len(off) = B
                /\ \A i \in 1..B :
                      /\ off[i] = SumSeq([j \in 1..i |-> batch.txt_lens[j] + p])
                      /\ off[i] > (IF i = 1 THEN 0 ELSE off[i - 1])
                      /\ SubSeq(outs'.context, off[i] - (batch.txt_lens[i] + p) + 1, off[i])
                            = ExpectedCARows(i)
                /\ off[B] = Len(outs'.context)]_vars
    /\ [][(pc'.op = "prepare_ptv3_batch" /\ outs'.status = "ok") =>
            "context_offset" \notin DOMAIN outs']_vars

\* a CA call with a pose token, two samples of different token counts
C11_Witness ==
    /\ pc.op = "ca_prepare_ptv3_batch"
    /\ TxtConsistent
    /\ PoseConsistent
    /\ outs.status = "ok"
    /\ config.use_ee_pose
    /\ Len(batch.txt_lens) >= 2
    /\ batch.txt_lens[1] # batch.txt_lens[2]
    /\ outs.context_offset[Len(batch.txt_lens)] = Len(outs.context)

(***************************************************************************)
(* MotionPlannerPTV3AdaNorm.__init__ / MotionPlannerPTV3CA.__init__ on a   *)
(* config object the caller keeps and passes again.                        *)
(***************************************************************************)
\* lines 157-160 with the increment of line 159 left out
MutateConfigNoAdd(cfg) ==
    [cfg EXCEPT !.pdnorm_only_decoder = IF @ = "unset" THEN "False" ELSE @,
                !.frozen = TRUE]

\* lines 157-160 (407-410): defrost, default pdnorm_only_decoder, add the label
\* channels to in_channels, freeze
MutateConfig(cfg) ==
    [cfg EXCEPT !.pdnorm_only_decoder = IF @ = "unset" THEN "False" ELSE @,
                !.in_channels = @ + cfg.pc_label_channels,
                !.frozen = TRUE]

\* the rest of __init__: the ActionHead built from the config (lines 178-184,
\* 426-432); an AssertionError leaves __init__ with the config already changed
ModelInit(cfg) ==
    LET mutated == MutateConfig(cfg)
    IN  [config |-> mutated,
         head |-> ActionHeadInit(mutated.reduce, mutated.pos_pred_type,
                                 mutated.rot_pred_type, HiddenSize, mutated.dim_actions,
                                 mutated.max_traj_len, mutated.traj_embed_size)]

ConfigInit ==
    \E reduce \in ReduceModes \cup {"sum"}, pos \in PosModes, rot \in RotModes \cup {"euler_delta"},
       T \in 1..2, tes \in {0, 1}, frozen \in BOOLEAN, channels \in {1, 2},
       in_channels \in {3, 6}, pdnorm \in {"unset", "True"} :
        /\ config = [reduce |-> reduce, pos_pred_type |-> pos, rot_pred_type |-> rot,
                     max_traj_len |-> T, traj_embed_size |-> tes,
                     dim_actions |-> DimActions(rot), pc_label_channels |-> channels,
                     in_channels |-> in_channels, pdnorm_only_decoder |-> pdnorm,
                     frozen |-> frozen]
        \* what the caller read from the config before the first construction
        /\ batch = [in_channels |-> in_channels]
        /\ head = None
        /\ preds = None
        /\ outs = None
        /\ losses = None
        /\ nedits = 0
        /\ pc = At("init", 0, 0)

\* MotionPlannerPTV3AdaNorm(config); nedits counts the constructions
ConstructAdaNorm ==
    /\ nedits < MaxConstructions
    /\ config' = ModelInit(config).config
    /\ head' = ModelInit(config).head
    /\ nedits' = nedits + 1
    /\ pc' = At("AdaNorm.__init__", 0, 0)
    /\ UNCHANGED <<batch, preds, outs, losses>>

\* MotionPlannerPTV3CA(config)
ConstructCA ==
    /\ nedits < MaxConstructions
    /\ config' = ModelInit(config).config
    /\ head' = ModelInit(config).head
    /\ nedits' = nedits + 1
    /\ pc' = At("CA.__init__", 0, 0)
    /\ UNCHANGED <<batch, preds, outs, losses>>

ConfigNext == ConstructAdaNorm \/ ConstructCA

SpecConfig == ConfigInit /\ [][ConfigNext]_vars

\* C12: each construction of either model adds pc_label_channels to the
\* caller's ptv3_config.in_channels and leaves the config frozen, so after k
\* constructions from one config object in_channels = initial + k *
\* pc_label_channels, also when the ActionHead assertion of that construction
\* fails.
C12_ConstructionMutatesConfig ==
    /\ config.in_channels = batch.in_channels + nedits * config.pc_label_channels
    /\ nedits > 0 => config.frozen /\ config.pdnorm_only_decoder # "unset"
    /\ (nedits > 0 /\ ~ValidConfig) => head.status = "AssertionError"

\* a second construction, of the CA model, whose ActionHead assertion failed
C12_Witness ==
    /\ nedits = 2
    /\ pc.op = "CA.__init__"
    /\ head.status = "AssertionError"
    /\ config.in_channels = batch.in_channels + 2 * config.pc_label_channels

====
